---------------------------- MODULE Spec2Model ----------------------------
(***************************************************************************)
(* A model of the minmips assembler (src/src/main.rs).                     *)
(*                                                                         *)
(* Text is modelled character by character: a string is a sequence of      *)
(* one-character strings.  A u32 is modelled as a pair <<hi, lo>> of its   *)
(* two 16-bit halves (bits 31..16 and bits 15..0), because the model       *)
(* checker's integers are themselves 32-bit signed; the shifts, ors and    *)
(* masks of the encoder are computed on that pair bit for bit.             *)
(***************************************************************************)
EXTENDS Integers, Sequences, FiniteSets, TLC

VARIABLES
    args_ok,          \* main: args.len() >= 2
    file_ok,          \* main: File::open succeeded
    file,             \* the lines of the input file
    pos,              \* the number of lines of the file read so far
    program,          \* main: program, the Vec<Instruction> read so far
    instrs_bin,       \* main: instrs_bin, the encoded words
    out,              \* the lines printed on standard output so far
    pc,               \* where main is
    overflow_checks   \* the build: TRUE panics on integer overflow, FALSE wraps

vars == <<args_ok, file_ok, file, pos, program, instrs_bin, out, pc, overflow_checks>>

-----------------------------------------------------------------------------
(* Bounds of the model *)

\* longest file of the family of all sequences over BaseLines
MaxLines == 2
\* length of the programs of the branch/jump family (one per pair (i, t))
MaxIdx == 4
\* longest file of the family over the lines that define and use one label
MaxDup == 3
\* longest file of the family of n copies of one instruction
MaxProgram == 65
\* number of standard-output lines after which the model stops following a
\* padding loop whose count wrapped around
MaxOut == 70

(* Program constants *)
ImageSize == 64
MaxI32 == 2147483647
MinI32 == -MaxI32 - 1
Half == 65536

-----------------------------------------------------------------------------
(* Characters and strings *)

DigitChars == <<"0", "1", "2", "3", "4", "5", "6", "7", "8", "9">>
HexChars == DigitChars \o <<"a", "b", "c", "d", "e", "f">>
Whitespace == {" ", "\n", "\t", "\r"}
\* a byte sequence that is not UTF-8: read_line reports an error on it
InvalidByte == "<ff>"

IsDigit(c) == \E d \in 1..10 : DigitChars[d] = c
to_digit(c) == (CHOOSE d \in 1..10 : DigitChars[d] = c) - 1

\* str::trim: s without its leading and trailing whitespace
trim(s) ==
    LET keep == {i \in 1..Len(s) : s[i] \notin Whitespace} IN
    IF keep = {} THEN <<>>
    ELSE SubSeq(s, CHOOSE i \in keep : \A j \in keep : i <= j,
                   CHOOSE i \in keep : \A j \in keep : j <= i)

\* str::split(c): the pieces of s between the occurrences of c, in order (never
\* empty: a string without c gives the one piece s)
split(s, c) ==
    LET at == {i \in 1..Len(s) : s[i] = c}
        \* the position of the k-th occurrence of c; 0 and Len(s) + 1 bound s
        cut(k) == IF k = 0 THEN 0
                  ELSE IF k > Cardinality(at) THEN Len(s) + 1
                  ELSE CHOOSE i \in at : Cardinality({j \in at : j < i}) = k - 1
    IN  [k \in 1..(Cardinality(at) + 1) |-> SubSeq(s, cut(k - 1) + 1, cut(k) - 1)]

\* str::replace of the character c by the string `by`, which is one character
\* or empty
replace(s, c, by) ==
    IF by = <<>> THEN SelectSeq(s, LAMBDA x : x # c)
    ELSE [i \in 1..Len(s) |-> IF s[i] = c THEN by[1] ELSE s[i]]

\* filter(|&s| s != "")
FilterNonEmpty(ss) == SelectSeq(ss, LAMBDA t : t # <<>>)

\* str::parse::<i32> on the digits after the sign; acc is the value so far,
\* built by subtraction for a negative literal as the standard library does
RECURSIVE ParseDigits(_, _, _)
ParseDigits(cs, acc, neg) ==
    IF cs = <<>> THEN [ok |-> TRUE, v |-> acc]
    ELSE IF ~IsDigit(Head(cs)) THEN [ok |-> FALSE, v |-> 0]
    ELSE LET d == to_digit(Head(cs)) IN
         IF neg
         THEN IF acc >= (MinI32 + d + 9) \div 10
              THEN ParseDigits(Tail(cs), acc * 10 - d, neg)
              ELSE [ok |-> FALSE, v |-> 0]
         ELSE IF acc <= (MaxI32 - d) \div 10
              THEN ParseDigits(Tail(cs), acc * 10 + d, neg)
              ELSE [ok |-> FALSE, v |-> 0]

parse_i32(s) ==
    IF s = <<>> THEN [ok |-> FALSE, v |-> 0]
    ELSE IF Head(s) \in {"-", "+"}
         THEN IF Len(s) = 1 THEN [ok |-> FALSE, v |-> 0]
              ELSE ParseDigits(Tail(s), 0, Head(s) = "-")
         ELSE ParseDigits(s, 0, FALSE)

-----------------------------------------------------------------------------
(* u32 arithmetic on <<hi, lo>> *)

Pow2(k) == 2 ^ k

u32(n) == <<(n \div Half) % Half, n % Half>>

\* `x as u32` of a signed or wrapped value: the low 32 bits, two's complement
as_u32(n) == <<(n \div Half) % Half, n % Half>>

Bit(a, k) == (a \div Pow2(k)) % 2

\* a | b and a & b on 16 bits: the sum of the bits set in either, or in both
OrHalf(a, b) ==
    LET o(k) == IF Bit(a, k) = 1 \/ Bit(b, k) = 1 THEN Pow2(k) ELSE 0 IN
    o(0) + o(1) + o(2) + o(3) + o(4) + o(5) + o(6) + o(7)
    + o(8) + o(9) + o(10) + o(11) + o(12) + o(13) + o(14) + o(15)

AndHalf(a, b) ==
    LET n(k) == IF Bit(a, k) = 1 /\ Bit(b, k) = 1 THEN Pow2(k) ELSE 0 IN
    n(0) + n(1) + n(2) + n(3) + n(4) + n(5) + n(6) + n(7)
    + n(8) + n(9) + n(10) + n(11) + n(12) + n(13) + n(14) + n(15)

BitOr(a, b) == <<OrHalf(a[1], b[1]), OrHalf(a[2], b[2])>>
BitAnd(a, b) == <<AndHalf(a[1], b[1]), AndHalf(a[2], b[2])>>

\* a << k on u32 for 0 < k < 32: the bits shifted out at the top are lost
Shl(a, k) ==
    IF k >= 16
    THEN <<(a[2] % Pow2(32 - k)) * Pow2(k - 16), 0>>
    ELSE <<(a[1] % Pow2(16 - k)) * Pow2(k) + a[2] \div Pow2(16 - k),
           (a[2] % Pow2(16 - k)) * Pow2(k)>>

\* a mask that keeps all 32 bits: the immediate is not cut to 16 bits
MaskAll == <<Half - 1, Half - 1>>

\* (1 << 16) - 1
Mask16 == <<0, Half - 1>>

-----------------------------------------------------------------------------
(* Operands, mnemonics, instructions *)

Reg(n) == [kind |-> "Reg", v |-> n, name |-> <<>>]
Im(n) == [kind |-> "Im", v |-> n, name |-> <<>>]
Label(s) == [kind |-> "Label", v |-> 0, name |-> s]

None == [some |-> FALSE, name |-> <<>>]
Some(s) == [some |-> TRUE, name |-> s]

Ok(x) == [tag |-> "Ok", val |-> x]
Err(m) == [tag |-> "Err", val |-> m]
\* a panic inside the function: the process aborts
Panic(m) == [tag |-> "Panic", val |-> m]

Mnemonic == {"AND", "OR", "J", "SLT", "ADD", "SUB", "ADDI", "BEQ", "SW", "LW"}

MnemonicNames ==
    [AND |-> <<"a", "n", "d">>, OR |-> <<"o", "r">>, J |-> <<"j">>,
     SLT |-> <<"s", "l", "t">>, ADD |-> <<"a", "d", "d">>,
     SUB |-> <<"s", "u", "b">>, ADDI |-> <<"a", "d", "d", "i">>,
     BEQ |-> <<"b", "e", "q">>, SW |-> <<"s", "w">>, LW |-> <<"l", "w">>]

Aliases ==
    <<[name |-> <<"$", "0">>, idx |-> 0],
      [name |-> <<"$", "a", "t">>, idx |-> 1],
      [name |-> <<"$", "g", "p">>, idx |-> 28],
      [name |-> <<"$", "s", "p">>, idx |-> 29],
      [name |-> <<"$", "f", "p">>, idx |-> 30],
      [name |-> <<"$", "r", "a">>, idx |-> 31]>>

\* the numbering of the prefix letters: n + base, s8 and s9 by their own rule
PrefixIdx(prefix, n) ==
    CASE prefix = "v" -> n + 2
      [] prefix = "a" -> n + 4
      [] prefix = "t" -> n + 8
      [] prefix = "s" -> IF n < 8 THEN n + 16 ELSE n + 24
      [] prefix = "k" -> n + 26

str2regidx(s) ==
    IF \E a \in 1..Len(Aliases) : Aliases[a].name = s
    THEN Ok(Aliases[CHOOSE a \in 1..Len(Aliases) : Aliases[a].name = s].idx)
    ELSE IF Len(s) < 3 THEN Panic("index out of bounds")
    ELSE IF ~IsDigit(s[3]) THEN Panic("illegal register")
    ELSE IF s[2] \notin {"v", "a", "t", "s", "k"} THEN Panic("illegal register")
    ELSE Ok(PrefixIdx(s[2], to_digit(s[3])))

\* the closure of str2instr's operand map: one token to one operand
Classify(tok) ==
    IF tok[1] = "$"
    THEN LET r == str2regidx(tok) IN
         IF r.tag = "Ok" THEN Ok(Reg(r.val)) ELSE r
    ELSE IF IsDigit(tok[1]) \/ tok[1] = "-"
    THEN LET p == parse_i32(tok) IN
         IF p.ok THEN Ok(Im(p.v)) ELSE Panic("unwrap on ParseIntError")
    ELSE Ok(Label(tok))

\* the operands in source order, or the first failure
RECURSIVE ClassifyAll(_)
ClassifyAll(toks) ==
    IF toks = <<>> THEN Ok(<<>>)
    ELSE LET o == Classify(Head(toks)) IN
         IF o.tag # "Ok" THEN o
         ELSE LET rest == ClassifyAll(Tail(toks)) IN
              IF rest.tag # "Ok" THEN rest ELSE Ok(<<o.val>> \o rest.val)

str2instr(s) ==
    LET split_colon == split(trim(s), ":")
        label == IF Len(split_colon) >= 2 THEN Some(trim(split_colon[1])) ELSE None
        operation_str == IF Len(split_colon) >= 2 THEN split_colon[2] ELSE split_colon[1]
        replaced == replace(replace(replace(operation_str, ",", <<" ">>), "(", <<" ">>),
                            ")", <<>>)
        split_space == FilterNonEmpty(split(replaced, " "))
    IN  IF split_space = <<>> THEN Panic("split_off: at > len")
        ELSE IF \A m \in Mnemonic : MnemonicNames[m] # split_space[1]
        THEN Err("undefined mnemonic")
        ELSE LET mnemonic == CHOOSE m \in Mnemonic : MnemonicNames[m] = split_space[1]
                 operands == ClassifyAll(Tail(split_space))
             IN  IF operands.tag # "Ok" THEN operands
                 ELSE Ok([label |-> label, mnemonic |-> mnemonic,
                          operands |-> operands.val])

mnemonic2funct(mnemonic) ==
    CASE mnemonic = "ADD" -> 32
      [] mnemonic = "SUB" -> 34
      [] mnemonic = "AND" -> 36
      [] mnemonic = "OR" -> 37
      [] mnemonic = "SLT" -> 42
      [] OTHER -> 0

mnemonictype(mnemonic) ==
    CASE mnemonic \in {"ADD", "SUB", "AND", "OR", "SLT"} -> "R"
      [] mnemonic \in {"ADDI", "BEQ", "LW", "SW"} -> "I"
      [] mnemonic = "J" -> "J"

mnemonic2op(mnemonic) ==
    CASE mnemonic \in {"ADD", "SUB", "AND", "OR", "SLT"} -> 0
      [] mnemonic = "ADDI" -> 8
      [] mnemonic = "LW" -> 35
      [] mnemonic = "SW" -> 43
      [] mnemonic = "BEQ" -> 4
      [] mnemonic = "J" -> 2

-----------------------------------------------------------------------------
(* The encoder *)

\* the label table after the first loop has run over the first k instructions
\* (indices 0 .. k-1): HashMap::insert replaces the entry of a name already
\* there, so each name is left with the index of its last definition
LabelMap(instrs, k) ==
    LET defines(j, n) == instrs[j].label.some /\ instrs[j].label.name = n
        names == {instrs[j].label.name : j \in {x \in 1..k : instrs[x].label.some}}
    IN  [n \in names |->
            (CHOOSE j \in 1..k :
                defines(j, n) /\ \A x \in (j + 1)..k : ~defines(x, n)) - 1]

\* adr - 1 - i in usize: with overflow checks a negative intermediate result
\* panics; without them it wraps, and the value returned stands for its
\* residue modulo 2^64, whose low 32 bits as_u32 takes
BranchOffset(adr, i, checks) ==
    IF checks /\ (adr - 1 < 0 \/ adr - 1 - i < 0)
    THEN Panic("attempt to subtract with overflow")
    ELSE Ok(adr - 1 - i)

FieldsRST(rs, rt, low) ==
    BitOr(BitOr(Shl(u32(rs), 21), Shl(u32(rt), 16)), low)

\* the operands taken in source order as (rs, rt, rd)
EncodeRFieldsSourceOrder(operands) ==
    FieldsRST(operands[1].v, operands[2].v, Shl(u32(operands[3].v), 11))

\* lines 169-172: (Reg(rs), Reg(rt), Reg(rd)) matched on
\* (operands[1], operands[2], operands[0])
EncodeRFields(operands) ==
    FieldsRST(operands[2].v, operands[3].v, Shl(u32(operands[1].v), 11))

EncodeR(instr) ==
    LET op == mnemonic2op(instr.mnemonic)
        operands == instr.operands
    IN  IF Len(operands) # 3 THEN Panic("something wrong!")
        ELSE IF operands[2].kind = "Reg" /\ operands[3].kind = "Reg"
                /\ operands[1].kind = "Reg"
        THEN LET funct == mnemonic2funct(instr.mnemonic) IN
             Ok(BitOr(BitOr(Shl(u32(op), 26), EncodeRFields(operands)), u32(funct)))
        ELSE Panic("something wrong!")

\* lines 187-189: (Reg(rs), Reg(rt), Im(im)) matched on
\* (operands[1], operands[0], operands[2])
EncodeIArith(operands) ==
    FieldsRST(operands[2].v, operands[1].v, BitAnd(as_u32(operands[3].v), Mask16))

\* lines 190-192: (Im(im), Reg(rt), Reg(rs))
EncodeIMem(operands) ==
    FieldsRST(operands[3].v, operands[1].v, BitAnd(as_u32(operands[2].v), Mask16))

\* the branch with its registers placed as in the arithmetic form
EncodeIBranchAsArith(operands, adr, i, checks) ==
    LET off == BranchOffset(adr, i, checks) IN
    IF off.tag # "Ok" THEN off
    ELSE Ok(FieldsRST(operands[2].v, operands[1].v,
                      BitAnd(as_u32(off.val), Mask16)))

\* lines 193-199: (Reg(rt), Reg(rs), Label(label)), so that rt is operands[1]
\* and rs is operands[0]; adr is the label's entry in the table
EncodeIBranch(operands, adr, i, checks) ==
    LET off == BranchOffset(adr, i, checks) IN
    IF off.tag # "Ok" THEN off
    ELSE Ok(FieldsRST(operands[1].v, operands[2].v,
                      BitAnd(as_u32(off.val), Mask16)))

EncodeI(instr, i, labelmap, checks) ==
    LET op == mnemonic2op(instr.mnemonic)
        operands == instr.operands
    IN  IF Len(operands) # 3 THEN Panic("something wrong!")
        ELSE IF operands[2].kind = "Reg" /\ operands[1].kind = "Reg"
                /\ operands[3].kind = "Im"
        THEN Ok(BitOr(Shl(u32(op), 26), EncodeIArith(operands)))
        ELSE IF operands[2].kind = "Im" /\ operands[1].kind = "Reg"
                /\ operands[3].kind = "Reg"
        THEN Ok(BitOr(Shl(u32(op), 26), EncodeIMem(operands)))
        ELSE IF operands[2].kind = "Reg" /\ operands[1].kind = "Reg"
                /\ operands[3].kind = "Label"
        THEN IF operands[3].name \in DOMAIN labelmap
             THEN LET f == EncodeIBranch(operands, labelmap[operands[3].name],
                                         i, checks) IN
                  IF f.tag # "Ok" THEN f ELSE Ok(BitOr(Shl(u32(op), 26), f.val))
             ELSE Panic("something wrong!")
        ELSE Panic("something wrong!")

\* the address as a byte address: the index shifted by 2
JumpAddressShifted(adr) == Shl(as_u32(adr), 2)

\* line 215: pos as u32
JumpAddress(adr) == as_u32(adr)

EncodeJ(instr, labelmap) ==
    LET op == mnemonic2op(instr.mnemonic)
        operands == instr.operands
    IN  IF Len(operands) # 1 THEN Panic("something wrong!")
        ELSE IF operands[1].kind = "Label"
        THEN IF operands[1].name \in DOMAIN labelmap
             THEN Ok(BitOr(Shl(u32(op), 26), JumpAddress(labelmap[operands[1].name])))
             ELSE Panic("something wrong!")
        ELSE Panic("something wrong!")

\* the body of the second loop for the instruction at index i
Encode(instr, i, labelmap, checks) ==
    CASE mnemonictype(instr.mnemonic) = "R" -> EncodeR(instr)
      [] mnemonictype(instr.mnemonic) = "I" -> EncodeI(instr, i, labelmap, checks)
      [] mnemonictype(instr.mnemonic) = "J" -> EncodeJ(instr, labelmap)

\* the second loop over the first k instructions: the words in program order,
\* or the panic of the first instruction that fails
EncodeUpTo(instrs, k, labelmap, checks) ==
    LET bin == [j \in 1..k |-> Encode(instrs[j], j - 1, labelmap, checks)]
        failed == {j \in 1..k : bin[j].tag # "Ok"}
    IN  IF failed # {} THEN bin[CHOOSE j \in failed : \A x \in failed : j <= x]
        ELSE Ok([j \in 1..k |-> bin[j].val])

instrs2bin(instrs, checks) ==
    EncodeUpTo(instrs, Len(instrs), LabelMap(instrs, Len(instrs)), checks)

\* {:08x}
Hex4(h) ==
    <<HexChars[((h \div 4096) % 16) + 1], HexChars[((h \div 256) % 16) + 1],
      HexChars[((h \div 16) % 16) + 1], HexChars[(h % 16) + 1]>>

Hex8(w) == Hex4(w[1]) \o Hex4(w[2])

-----------------------------------------------------------------------------
(* The input files the model reads *)

\* the decimal text of an integer
RECURSIVE DecNeg(_)
DecNeg(m) ==
    \* m <= 0; its last digit is d, the rest is (m + d) / 10
    LET d == (10 - (m % 10)) % 10 IN
    IF m + d = 0 THEN <<DigitChars[d + 1]>>
    ELSE DecNeg((m + d) \div 10) \o <<DigitChars[d + 1]>>

Dec(n) == IF n < 0 THEN <<"-">> \o DecNeg(n) ELSE DecNeg(-n)

SrcLabel == <<"L">>

\* a register name and the register number the register table documents for it
TestRegs ==
    {[name |-> <<"$", "0">>, idx |-> 0],
     [name |-> <<"$", "t", "0">>, idx |-> 8],
     [name |-> <<"$", "t", "1">>, idx |-> 9],
     [name |-> <<"$", "r", "a">>, idx |-> 31],
     [name |-> <<"$", "s", "8">>, idx |-> 32]}

TestIms ==
    {MinI32, -70000, -Half, -32769, -32768, -1, 0, 4464, 32767, 32768,
     Half, 70000, MaxI32}

\* every register token of the two schemes, and some that are neither
RegTokens ==
    {Aliases[a].name : a \in 1..Len(Aliases)}
    \cup {<<"$", p, DigitChars[d]>> : p \in {"v", "a", "t", "s", "k"}, d \in 1..10}
    \cup {<<"$", "t", "1", "0">>, <<"$", "x", "1">>, <<"$", "t", "x">>,
          <<"$", "t">>, <<"$">>, <<"$", "g", "p", "0">>}

Join3(mn, a, b, c) ==
    MnemonicNames[mn] \o <<" ">> \o a \o <<",", " ">> \o b \o <<",", " ">> \o c
    \o <<"\n">>

\* mn $a, im($b)
JoinMem(mn, a, im, b) ==
    MnemonicNames[mn] \o <<" ">> \o a \o <<",", " ">> \o im \o <<"(">> \o b
    \o <<")", "\n">>

Labelled(line) == SrcLabel \o <<":", " ">> \o line

T0 == <<"$", "t", "0">>
T1 == <<"$", "t", "1">>
T2 == <<"$", "t", "2">>

NopLine == Join3("ADD", T0, T1, T2)
BeqLine == Join3("BEQ", T0, T1, SrcLabel)
Beq2Line == Join3("BEQ", <<"$", "r", "a">>, <<"$", "0">>, SrcLabel)
JLine == MnemonicNames["J"] \o <<" ">> \o SrcLabel \o <<"\n">>
DefLine == Labelled(Join3("ADDI", T0, T0, Dec(-1)))

BaseLines ==
    {NopLine, DefLine, BeqLine, JLine,
     JoinMem("LW", T0, Dec(4), <<"$", "s", "p">>),
     <<"x", "o", "r", " ">> \o T0 \o <<",">> \o T1 \o <<",">> \o T2 \o <<"\n">>,
     <<"\n">>,
     Join3("ADD", T0, <<"$", "x", "1">>, T2),
     Join3("ADDI", T0, T0, <<"1", "x">>),
     MnemonicNames["ADD"] \o <<" ">> \o T0 \o <<",", " ">> \o T1 \o <<"\n">>,
     Join3("ADD", T0, T1, Dec(5)),
     <<InvalidByte, "\n">>}

SeqsUpTo(S, n) == UNION {[1..k -> S] : k \in 0..n}

SmallFiles == SeqsUpTo(BaseLines, MaxLines)

DupFiles == SeqsUpTo({DefLine, BeqLine, JLine}, MaxDup)

\* MaxIdx instructions, the label on the one at index t and `ref` at index i
RefFile(ref, i, t) ==
    [k \in 1..MaxIdx |->
        LET line == IF k - 1 = i THEN ref ELSE NopLine IN
        IF k - 1 = t THEN Labelled(line) ELSE line]

\* one program for each reference, index i of the reference and index t of
\* the label
RefCases ==
    {[file |-> RefFile(ref, i, t), ref |-> ref, i |-> i, t |-> t] :
        ref \in {BeqLine, Beq2Line, JLine}, i \in 0..(MaxIdx - 1),
        t \in 0..(MaxIdx - 1)}

RefFiles == {e.file : e \in RefCases}

RegFiles == {<<Join3("ADD", r, T1, T2)>> : r \in RegTokens}

\* mn $a, $b, $c: one R-format line for each mnemonic and registers
RCases ==
    {[line |-> Join3(mn, a.name, b.name, c.name), mn |-> mn,
      a |-> a.idx, b |-> b.idx, c |-> c.idx] :
        mn \in {"ADD", "SUB", "AND", "OR", "SLT"},
        a \in TestRegs, b \in TestRegs, c \in TestRegs}

RFiles == {<<e.line>> : e \in RCases}

\* mn $a, $b, im and mn $a, im($b)
ICases ==
    {[line |-> Join3(mn, a.name, b.name, Dec(im)), mn |-> mn, form |-> "arith",
      a |-> a.idx, b |-> b.idx, im |-> im] :
        mn \in {"ADDI", "LW", "SW"}, a \in TestRegs, b \in TestRegs, im \in TestIms}
    \cup
    {[line |-> JoinMem(mn, a.name, Dec(im), b.name), mn |-> mn, form |-> "mem",
      a |-> a.idx, b |-> b.idx, im |-> im] :
        mn \in {"ADDI", "LW", "SW"}, a \in TestRegs, b \in TestRegs, im \in TestIms}

IFiles == {<<e.line>> : e \in ICases}

LongFiles == {[k \in 1..n |-> NopLine] : n \in (ImageSize - 1)..MaxProgram}

Files ==
    SmallFiles \cup DupFiles \cup RefFiles \cup RegFiles \cup RFiles \cup IFiles
    \cup LongFiles

-----------------------------------------------------------------------------
(* main *)

UsageLine == <<"minmips-assembler [file]">>
ReadErrorLine == <<"stream did not contain valid UTF-8">>
ZeroLine == Hex8(u32(0))

IsUtf8(line) == \A k \in 1..Len(line) : line[k] # InvalidByte

Init ==
    /\ args_ok \in BOOLEAN
    /\ file_ok \in BOOLEAN
    /\ overflow_checks \in BOOLEAN
    /\ file \in Files
    /\ (~args_ok \/ ~file_ok) => (file = <<>> /\ overflow_checks)
    /\ ~args_ok => file_ok
    /\ pos = 0
    /\ program = <<>>
    /\ instrs_bin = <<>>
    /\ out = <<>>
    /\ pc = "start"

\* lines 233-237: no file argument
Usage ==
    /\ pc = "start" /\ ~args_ok
    /\ out' = Append(out, UsageLine)
    /\ pc' = "returned"
    /\ UNCHANGED <<args_ok, file_ok, file, pos, program, instrs_bin, overflow_checks>>

\* lines 239-244: the file cannot be opened
OpenFail ==
    /\ pc = "start" /\ args_ok /\ ~file_ok
    /\ pc' = "panic_open"
    /\ UNCHANGED <<args_ok, file_ok, file, pos, program, instrs_bin, out,
                   overflow_checks>>

Open ==
    /\ pc = "start" /\ args_ok /\ file_ok
    /\ pc' = "read"
    /\ UNCHANGED <<args_ok, file_ok, file, pos, program, instrs_bin, out,
                   overflow_checks>>

\* lines 250-255, Ok(_): one line read and parsed
ReadLine ==
    /\ pc = "read" /\ pos < Len(file) /\ IsUtf8(file[pos + 1])
    /\ LET r == str2instr(file[pos + 1]) IN
        /\ r.tag = "Ok"
        /\ program' = Append(program, r.val)
    /\ pos' = pos + 1
    /\ UNCHANGED <<args_ok, file_ok, file, instrs_bin, out, pc, overflow_checks>>

\* lines 250-255, Ok(_): str2instr fails, or panics, on the line read
ReadLineFail ==
    /\ pc = "read" /\ pos < Len(file) /\ IsUtf8(file[pos + 1])
    /\ str2instr(file[pos + 1]).tag # "Ok"
    /\ pos' = pos + 1
    /\ pc' = "panic_parse"
    /\ UNCHANGED <<args_ok, file_ok, file, program, instrs_bin, out, overflow_checks>>

\* lines 256-259, Err(e): the error is printed and the loop is left
ReadError ==
    /\ pc = "read" /\ pos < Len(file) /\ ~IsUtf8(file[pos + 1])
    /\ out' = Append(out, ReadErrorLine)
    /\ pc' = "encode"
    /\ UNCHANGED <<args_ok, file_ok, file, pos, program, instrs_bin, overflow_checks>>

\* line 251, Ok(0): end of file
ReadEof ==
    /\ pc = "read" /\ pos = Len(file)
    /\ pc' = "encode"
    /\ UNCHANGED <<args_ok, file_ok, file, pos, program, instrs_bin, out,
                   overflow_checks>>

\* line 262
EncodeOk ==
    /\ pc = "encode"
    /\ LET r == instrs2bin(program, overflow_checks) IN
        /\ r.tag = "Ok"
        /\ instrs_bin' = r.val
    /\ pc' = "print"
    /\ UNCHANGED <<args_ok, file_ok, file, pos, program, out, overflow_checks>>

\* line 262: instrs2bin panics
EncodeFail ==
    /\ pc = "encode"
    /\ instrs2bin(program, overflow_checks).tag # "Ok"
    /\ pc' = "panic_encode"
    /\ UNCHANGED <<args_ok, file_ok, file, pos, program, instrs_bin, out,
                   overflow_checks>>

\* lines 263-265: the loop over the words
PrintWords ==
    /\ pc = "print"
    /\ out' = out \o [k \in 1..Len(instrs_bin) |-> Hex8(instrs_bin[k])]
    /\ pc' = "pad"
    /\ UNCHANGED <<args_ok, file_ok, file, pos, program, instrs_bin, overflow_checks>>

\* a count that is one line short
PadCountShort(n) == ImageSize - n - 1

\* line 266: 64 - instrs_bin.len()
PadCount(n) == ImageSize - n

\* lines 266-268: the padding loop
PrintPadding ==
    /\ pc = "pad" /\ PadCount(Len(instrs_bin)) >= 0
    /\ out' = out \o [k \in 1..PadCount(Len(instrs_bin)) |-> ZeroLine]
    /\ pc' = "done"
    /\ UNCHANGED <<args_ok, file_ok, file, pos, program, instrs_bin, overflow_checks>>

\* line 266: 64 - instrs_bin.len() overflows and the build checks overflow
PadOverflowPanic ==
    /\ pc = "pad" /\ PadCount(Len(instrs_bin)) < 0 /\ overflow_checks
    /\ pc' = "panic_pad"
    /\ UNCHANGED <<args_ok, file_ok, file, pos, program, instrs_bin, out,
                   overflow_checks>>

\* lines 266-268: the count wrapped to 2^64 - (len - 64); the loop goes on
\* printing, followed here up to MaxOut lines
PadWrapped ==
    /\ pc \in {"pad", "pad_wrapped"} /\ PadCount(Len(instrs_bin)) < 0
    /\ ~overflow_checks
    /\ Len(out) < MaxOut
    /\ out' = Append(out, ZeroLine)
    /\ pc' = "pad_wrapped"
    /\ UNCHANGED <<args_ok, file_ok, file, pos, program, instrs_bin, overflow_checks>>

Next ==
    \/ Usage
    \/ OpenFail
    \/ Open
    \/ ReadLine
    \/ ReadLineFail
    \/ ReadError
    \/ ReadEof
    \/ EncodeOk
    \/ EncodeFail
    \/ PrintWords
    \/ PrintPadding
    \/ PadOverflowPanic
    \/ PadWrapped

Spec == Init /\ [][Next]_vars

-----------------------------------------------------------------------------
(* Properties *)

\* main has called instrs2bin on the program it read
AfterEncode == pc \in {"print", "pad", "done", "pad_wrapped", "panic_pad", "panic_encode"}
\* instrs2bin has returned the words of the program
Encoded == pc \in {"print", "pad", "done", "pad_wrapped", "panic_pad"}

Hi(w) == w[1]
Lo(w) == w[2]

Chars4(a, b, c, d) == <<a, b, c, d>>

\* C1: a `beq $r1,$r2,L` at index i whose label L is defined at index t is
\* encoded, for every pair (i, t), forward or backward, and the low 16 bits of
\* its word are (t - 1 - i) mod 2^16.
C1_BranchOffsetEveryPair ==
    AfterEncode =>
        \A e \in RefCases :
            (file = e.file /\ e.ref # JLine)
                => /\ pc # "panic_encode"
                   /\ Lo(instrs_bin[e.i + 1]) = (e.t - 1 - e.i) % Half

\* What holds of the branch offset: a forward reference (t > i) is always
\* encoded, and whenever the encoder returns, the low 16 bits of the word of
\* every branch are (t - 1 - i) mod 2^16.
BranchOffsetWhenEncoded ==
    AfterEncode =>
        \A e \in RefCases :
            (file = e.file /\ e.ref # JLine)
                => /\ (pc = "panic_encode") => (overflow_checks /\ e.t <= e.i)
                   /\ Encoded => Lo(instrs_bin[e.i + 1]) = (e.t - 1 - e.i) % Half

\* C2: every Reg operand that the operand classifier has produced carries an
\* index in 0..31.
C2_RegIndexInRange ==
    \A k \in 1..Len(program) : \A j \in 1..Len(program[k].operands) :
        program[k].operands[j].kind = "Reg" => program[k].operands[j].v \in 0..31

IsRShape(instr) ==
    /\ mnemonictype(instr.mnemonic) = "R"
    /\ Len(instr.operands) = 3
    /\ \A j \in 1..3 : instr.operands[j].kind = "Reg" /\ instr.operands[j].v \in 0..31

\* the function codes as the claim lists them
FunctOf(mn) ==
    CASE mn = "ADD" -> 32 [] mn = "SUB" -> 34 [] mn = "AND" -> 36
      [] mn = "OR" -> 37 [] mn = "SLT" -> 42

\* C3: an R-format instruction with the register operands (rd, rs, rt) in
\* source order, each in 0..31, is encoded as rs*2^21 + rt*2^16 + rd*2^11 +
\* funct, stated here on the two halves of the word: bits 31..16 are
\* rs*2^5 + rt (the opcode bits are 0) and bits 15..0 are rd*2^11 + funct
\* (the shamt bits are 0); a program of such instructions never fails to
\* encode; and `add $t0, $t1, $t2` is printed as 012a4020.
C3_RFormatWord ==
    /\ Encoded =>
         \A k \in 1..Len(program) :
            IsRShape(program[k]) =>
                LET rd == program[k].operands[1].v
                    rs == program[k].operands[2].v
                    rt == program[k].operands[3].v
                IN  /\ Hi(instrs_bin[k]) = rs * 32 + rt
                    /\ Lo(instrs_bin[k]) = rd * 2048 + FunctOf(program[k].mnemonic)
    /\ pc = "panic_encode" => \E k \in 1..Len(program) : ~IsRShape(program[k])
    /\ (AfterEncode /\ Len(file) = 1) =>
          \A e \in RCases :
            (file[1] = e.line /\ e.a <= 31 /\ e.b <= 31 /\ e.c <= 31)
                => /\ pc # "panic_encode"
                   /\ Encoded =>
                        instrs_bin = << <<e.b * 32 + e.c, e.a * 2048 + FunctOf(e.mn)>> >>
    /\ (pc = "done" /\ file = <<NopLine>>)
          => out[1] = Chars4("0", "1", "2", "a") \o Chars4("4", "0", "2", "0")

C3_Witness ==
    /\ pc = "done" /\ file = <<Join3("SLT", <<"$", "r", "a">>, T0, T1)>>
    /\ instrs_bin = << <<8 * 32 + 9, 31 * 2048 + 42>> >>

\* the opcodes as the claim lists them
OpOf(mn) == CASE mn = "ADDI" -> 8 [] mn = "LW" -> 35 [] mn = "SW" -> 43

\* C4: for an immediate in -32768..32767, `addi $rt, $rs, im` and
\* `lw/sw $rt, im($rs)`, parsed from that text, are encoded as
\* opcode*2^26 + rs*2^21 + rt*2^16 + (im mod 2^16): on the halves of the
\* word, bits 31..16 are opcode*2^10 + rs*2^5 + rt and bits 15..0 are
\* im mod 2^16.  The registers range over every register name of the table.
C4_IFormatWord ==
    (AfterEncode /\ Len(file) = 1) =>
        \A e \in ICases :
            (file[1] = e.line /\ e.im \in -32768..32767)
                => /\ pc # "panic_encode"
                   /\ Encoded =>
                        instrs_bin = << <<OpOf(e.mn) * 1024 + e.b * 32 + e.a,
                                          e.im % Half>> >>

\* The statement of C4 for the register names whose number is in 0..31
\* (every name but $s8, $s9 and $k6..$k9, see C2).
IFormatWordValidRegs ==
    (AfterEncode /\ Len(file) = 1) =>
        \A e \in ICases :
            (file[1] = e.line /\ e.im \in -32768..32767 /\ e.a <= 31 /\ e.b <= 31)
                => /\ pc # "panic_encode"
                   /\ Encoded =>
                        instrs_bin = << <<OpOf(e.mn) * 1024 + e.b * 32 + e.a,
                                          e.im % Half>> >>

\* bits 31..16 of op << 26 | rs << 21 | rt << 16, for any u32 rs and rt
HiOr(op, rs, rt) ==
    OrHalf(OrHalf((op * 1024) % Half, (rs * 32) % Half), rt % Half)

\* C5: `addi $rt, $rs, im` is encoded for every i32 im, in or out of
\* -32768..32767; bits 15..0 of the word are im mod 65536 and bits 31..16 are
\* those of opcode, rs and rt alone, so that two immediates congruent modulo
\* 65536 give the same word.
C5_ImmediateMasked ==
    (AfterEncode /\ Len(file) = 1) =>
        \A e \in ICases :
            (file[1] = e.line /\ e.mn = "ADDI" /\ e.form = "arith")
                => /\ pc # "panic_encode"
                   /\ Encoded =>
                        instrs_bin = << <<HiOr(8, e.b, e.a), e.im % Half>> >>

\* addi $t0, $t0, 70000 is printed as 21081170, the word of
\* addi $t0, $t0, 4464
C5_Witness ==
    /\ pc = "done"
    /\ file = <<Join3("ADDI", T0, T0, Dec(70000))>>
    /\ out[1] = Chars4("2", "1", "0", "8") \o Chars4("1", "1", "7", "0")
    /\ 70000 % Half = 4464

Zeros8 == Chars4("0", "0", "0", "0") \o Chars4("0", "0", "0", "0")

\* the word of the instruction at index k - 1 of the program
WordOf(k) ==
    Encode(program[k], k - 1, LabelMap(program, Len(program)), overflow_checks).val

\* C6: when a file of n <= 64 instructions has been read to its end, parsed
\* and encoded, main prints exactly 64 lines and returns: line k is the word
\* of instruction k for k <= n, and the 64 - n lines after them are 00000000.
C6_SixtyFourLines ==
    /\ (pc = "done" /\ pos = Len(file))
          => /\ Len(program) <= ImageSize
             /\ Len(out) = ImageSize
             /\ \A k \in 1..ImageSize :
                    out[k] = IF k <= Len(program) THEN Hex8(WordOf(k)) ELSE Zeros8
    /\ (Encoded /\ pos = Len(file) /\ Len(program) <= ImageSize)
          => /\ pc \in {"print", "pad", "done"}
             /\ Len(out) \in {0, Len(program), ImageSize}
             /\ pc = "pad" => PadCount(Len(instrs_bin)) >= 0

C6_Witness ==
    /\ pc = "done" /\ pos = Len(file)
    /\ Len(program) = 3
    /\ Len(out) = ImageSize
    /\ out[3] # Zeros8
    /\ out[4] = Zeros8

\* C7: when a line fails to parse or an instruction fails to encode, the run
\* aborts with nothing printed on standard output.
C7_NothingPrintedBeforeAbort ==
    pc \in {"panic_parse", "panic_encode"} => out = <<>>

\* What holds of an aborted run: no word of the image has been printed; the
\* one line that can be on standard output is the message of a read error.
NoWordBeforeAbort ==
    pc \in {"panic_parse", "panic_encode"}
        => \/ out = <<>>
           \/ out = <<ReadErrorLine>> /\ pos < Len(file) /\ ~IsUtf8(file[pos + 1])

\* C8: a `j L` whose label is defined at index t is encoded as 2*2^26 + t,
\* wherever the jump itself sits: bits 31..16 are 2*2^10 and bits 15..0 are t.
C8_JumpRawIndex ==
    AfterEncode =>
        \A e \in RefCases :
            (file = e.file /\ e.ref = JLine)
                => /\ pc # "panic_encode"
                   /\ Encoded => instrs_bin[e.i + 1] = <<2 * 1024, e.t>>

C8_Witness ==
    /\ pc = "done"
    /\ file = RefFile(JLine, 0, 3)
    /\ instrs_bin[1] = <<2048, 3>>
    /\ out[1] = Chars4("0", "8", "0", "0") \o Chars4("0", "0", "0", "3")

IsBranchShape(instr) ==
    /\ instr.mnemonic = "BEQ"
    /\ Len(instr.operands) = 3
    /\ instr.operands[1].kind = "Reg"
    /\ instr.operands[2].kind = "Reg"
    /\ instr.operands[3].kind = "Label"

\* the word of `beq $x, $y, im`, the arithmetic form
BeqImWord(x, y, im) ==
    EncodeI([label |-> None, mnemonic |-> "BEQ", operands |-> <<Reg(x), Reg(y), Im(im)>>],
            0, << >>, overflow_checks).val

\* C9 as claimed: in `beq $a, $b, L` the register $a is in the rt field and $b
\* in the rs field, as in `addi $rt, $rs, im`, so that the word is that of
\* `beq $a, $b, im` with im the resolved offset.
C9_BranchFieldsAsArith ==
    Encoded =>
        \A k \in 1..Len(program) :
            IsBranchShape(program[k]) =>
                LET a == program[k].operands[1].v
                    b == program[k].operands[2].v
                    t == LabelMap(program, Len(program))[program[k].operands[3].name]
                IN  /\ Hi(instrs_bin[k]) = 4 * 1024 + b * 32 + a
                    /\ instrs_bin[k] = BeqImWord(a, b, t - 1 - (k - 1))

\* C9 as amended: in every word the encoder produces for `beq $a, $b, L`
\* the register $a is in the rs field (bits 25..21) and $b in the rt field
\* (bits 20..16), the reverse of the arithmetic form, so that the word is
\* that of `beq $b, $a, im` with im the resolved offset t - 1 - i.
C9_BranchFieldsReversed ==
    Encoded =>
        \A k \in 1..Len(program) :
            IsBranchShape(program[k]) =>
                LET a == program[k].operands[1].v
                    b == program[k].operands[2].v
                    t == LabelMap(program, Len(program))[program[k].operands[3].name]
                IN  /\ (a <= 31 /\ b <= 31) =>
                            Hi(instrs_bin[k]) = 4 * 1024 + a * 32 + b
                    /\ instrs_bin[k] = BeqImWord(b, a, t - 1 - (k - 1))

C9_Witness ==
    /\ pc = "done"
    /\ file = RefFile(BeqLine, 0, 2)
    /\ instrs_bin[1] = <<4 * 1024 + 8 * 32 + 9, 1>>

\* the indices (from 0) of the lines of the file that define the label
DefIndices == {k \in 0..(Len(file) - 1) : file[k + 1] = DefLine}
LastDef == CHOOSE d \in DefIndices : \A x \in DefIndices : x <= d

\* C10: when a label is defined more than once, every branch and every jump
\* that refers to it, before, between or after the definitions, is encoded
\* against the index of the last definition, and no error is raised.
C10_LastDefinitionWins ==
    (AfterEncode /\ file \in DupFiles /\ Cardinality(DefIndices) >= 2)
        => /\ pc # "panic_encode"
           /\ \A k \in 1..Len(file) :
                /\ file[k] = BeqLine =>
                       Lo(instrs_bin[k]) = (LastDef - 1 - (k - 1)) % Half
                /\ file[k] = JLine => instrs_bin[k] = <<2 * 1024, LastDef>>

\* What holds of a label defined more than once: whenever the encoder
\* returns, every reference is encoded against the last definition, and the
\* encoder fails only on a branch at or after the last definition in a build
\* with overflow checks.
LastDefinitionWinsWhenEncoded ==
    (AfterEncode /\ file \in DupFiles /\ Cardinality(DefIndices) >= 2)
        => /\ (pc = "panic_encode") =>
                (overflow_checks /\ \E k \in 1..Len(file) :
                                        file[k] = BeqLine /\ k - 1 >= LastDef)
           /\ Encoded =>
                \A k \in 1..Len(file) :
                    /\ file[k] = BeqLine =>
                           Lo(instrs_bin[k]) = (LastDef - 1 - (k - 1)) % Half
                    /\ file[k] = JLine => instrs_bin[k] = <<2 * 1024, LastDef>>

=============================================================================
